---------------------------- MODULE Spec2Model ----------------------------
(***************************************************************************)
(* Model of testtools.runtest.RunTest (src/testtools/runtest.py): one run  *)
(* of one test case through setup, test method, teardown and the cleanup   *)
(* drain, reporting to a result collector.                                 *)
(*                                                                         *)
(* The run is sequential; pc is the position of the single thread of       *)
(* control.  User code (setup, test method, teardown, each cleanup, each   *)
(* handler) is the environment: every call returns or raises one of a      *)
(* small set of exceptions.  The case's diagnostic hooks (onException,     *)
(* _report_traceback, getDetails) and the decorated result's methods are   *)
(* taken to return normally.                                               *)
(***************************************************************************)
EXTENDS Integers, Sequences, FiniteSets, TLC

VARIABLES
    pc,             \* position of the run
    handlers,       \* self.handlers: ordered (exc_class, handler) pairs
    result_given,   \* whether run() was called with a result
    exceptions,     \* self._exceptions: the pending list
    cleanups,       \* self.case._cleanups: stack of registered cleanups
    failed,         \* local `failed` of _run_core
    last_exception, \* local `last_exception` of _run_cleanups
    propagating,    \* the exception unwinding the stack, NoExc if none
    log             \* calls made on the case and on the result, in order

vars == <<pc, handlers, result_given, exceptions, cleanups, failed,
          last_exception, propagating, log>>

\* Number of cleanups registered on the case (A = 1, B = 2, C = 3, ...).
MaxCleanups == 3

-----------------------------------------------------------------------------
(* Exceptions.  An exception (and its sys.exc_info() record) is a record:  *)
(* cls is its class, origin/n/part say which user code raised it, args is  *)
(* the payload (exc_info records) of a MultipleExceptions carrier.         *)

Mk(c, o, i, p, a) == [cls |-> c, origin |-> o, n |-> i, part |-> p, args |-> a]

\* Python's None / "no exception".
NoExc == Mk("None", "none", 0, 0, <<>>)

\* The class hierarchy isinstance() walks.
Parent(c) ==
    CASE c = "AssertionError"     -> "Exception"
      [] c = "Skip"               -> "Exception"
      [] c = "MultipleExceptions" -> "Exception"
      [] c = "Exception"          -> "BaseException"
      [] c = "KeyboardInterrupt"  -> "BaseException"
      [] c = "SystemExit"         -> "BaseException"
      [] OTHER                    -> "object"

RECURSIVE IsSubclass(_, _)
IsSubclass(c, d) ==
    IF c = d THEN TRUE
    ELSE IF c = "object" THEN FALSE
    ELSE IsSubclass(Parent(c), d)

isinstance(e, exc_class) == IsSubclass(e.cls, exc_class)

\* `except KeyboardInterrupt: raise`
IsInterrupt(e) == isinstance(e, "KeyboardInterrupt")

\* What setup, the test method and teardown can do: return or raise.
HookClasses == {"AssertionError", "Skip", "KeyboardInterrupt"}
HookOutcomes(o) == {NoExc} \cup {Mk(c, o, 0, 0, <<>>) : c \in HookClasses}

\* What a cleanup can do: return, raise a plain exception, an interrupt, or
\* a MultipleExceptions carrier (empty, or holding an exception and a nested
\* carrier).
CleanupClasses == {"AssertionError", "KeyboardInterrupt"}
Leaf(c, i, p) == Mk(c, "cleanup", i, p, <<>>)
Carrier(i, p, a) == Mk("MultipleExceptions", "cleanup", i, p, a)
CleanupOutcomes(i) ==
    {NoExc}
    \cup {Leaf(c, i, 0) : c \in CleanupClasses}
    \cup {Carrier(i, 0, <<>>),
          Carrier(i, 0, <<Leaf("SystemExit", i, 1),
                          Carrier(i, 2, <<Leaf("AssertionError", i, 3)>>)>>)}

\* What a handler can do: return or raise.
HandlerOutcomes == {NoExc, Mk("AssertionError", "handler", 0, 0, <<>>)}

\* Handler tables a RunTest is constructed with.
Entry(c, h) == [exc_class |-> c, handler |-> h]
HandlerTables ==
    { <<>>,
      <<Entry("Skip", "addSkip"), Entry("AssertionError", "addFailure"),
        Entry("Exception", "addError")>>,
      <<Entry("Exception", "addError"), Entry("AssertionError", "addFailure")>>,
      <<Entry("AssertionError", "addFailure")>> }

-----------------------------------------------------------------------------
(* The log of calls.                                                       *)

Ev(e, x, i) == [ev |-> e, exc |-> x, n |-> i]
Call(e) == Ev(e, NoExc, 0)

-----------------------------------------------------------------------------
(* Pure pieces of the code.                                                *)

\* for exc_class, handler in self.handlers: if isinstance(e, exc_class)
HandlerMatches(e) ==
    {i \in DOMAIN handlers : isinstance(e, handlers[i].exc_class)}
HasHandler(e) == HandlerMatches(e) # {}
LastHandler(e) ==
    CHOOSE i \in HandlerMatches(e) : \A j \in HandlerMatches(e) : i >= j
FirstHandler(e) ==
    CHOOSE i \in HandlerMatches(e) : \A j \in HandlerMatches(e) : i <= j

\* list.pop(): the list left once the last element is taken.
PopRest(s) == SubSeq(s, 1, Len(s) - 1)

\* e = self._exceptions.pop()
PendingPopFirst(s) == s[1]
PendingPop(s) == s[Len(s)]

\* function, arguments, keywordArguments = self.case._cleanups.pop()
CleanupPopFirst(s) == s[1]
CleanupPop(s) == s[Len(s)]

\* exc_info = exceptions.pop()
WorkPop(s) == s[Len(s)]

\* if exc_info[0] is MultipleExceptions
NeverCarrier(exc_info) == FALSE
IsCarrier(exc_info) == exc_info.cls = "MultipleExceptions"

\* last_exception = exc_info[1]
KeepFirstFailure(last, exc_info) == IF last.cls = "None" THEN exc_info ELSE last
RecordFailure(last, exc_info) == exc_info

\* The worklist loop of _run_cleanups: `work` is the list `exceptions`,
\* `rep` the exc_infos handed to case._report_traceback so far, `last` the
\* value of last_exception.  Yields [rep, last].
RECURSIVE Flatten(_, _, _)
Flatten(work, rep, last) ==
    IF work = <<>> THEN [rep |-> rep, last |-> last]
    ELSE LET exc_info == WorkPop(work)
             rest == PopRest(work)
         IN IF IsCarrier(exc_info)
            THEN Flatten(rest \o exc_info.args, rep, last)
            ELSE Flatten(rest, Append(rep, exc_info),
                         RecordFailure(last, exc_info))

RECURSIVE ReportEvents(_)
ReportEvents(rep) ==
    IF rep = <<>> THEN <<>>
    ELSE <<Ev("report_traceback", rep[1], 0)>> \o ReportEvents(Tail(rep))

\* self.case.onException(exc_info, tb_label=tb_label): the first thing
\* _got_user_exception does, before the handler table is consulted.
OnExceptionIfHandled(e) ==
    IF HasHandler(e) THEN <<Ev("onException", e, 0)>> ELSE <<>>
OnException(e) == <<Ev("onException", e, 0)>>

\* while self.case._cleanups: the drain goes on while the stack holds an
\* entry, whatever was recorded in last_exception.
StopAtFirstFailure(stack, last) == stack # <<>> /\ last.cls = "None"
DrainContinues(stack, last) == stack # <<>>

\* if not failed: (the innermost finally of _run_core)
SuccessAlways(f) == TRUE
SuccessGuard(f) == ~f

\* Where control goes after the test method and after teardown, prop being
\* the exception that is unwinding (NoExc if none): the finally clauses of
\* _run_core run the next phase whatever happened.
SkipTeardownOnRaise(prop) == IF prop.cls = "None" THEN "teardown" ELSE "stop"
AfterTestMethod(prop) == "teardown"
SkipCleanupsOnRaise(prop) == IF prop.cls = "None" THEN "cleanups" ELSE "success"
AfterTeardown(prop) == "cleanups"

\* Where control goes once setup's exception was caught and classified:
\* the drain, then return ("Don't run the test method if we failed
\* getting here").
RunTestAfterFailedSetup == "body"
DispatchAfterFailedSetup == "dispatch"
AfterSetupCaught == "setup_cleanups"

\* Where control goes when _run_prepared_result's try block is left: its
\* finally calls stopTest on every exit path.
StopOnlyOnReturn(prop) == IF prop.cls = "None" THEN "stop" ELSE "stop_run"
AfterCore(prop) == "stop"

\* Where control goes when a cleanup raised an interrupt in the drain
\* entered at position p: `except KeyboardInterrupt: raise` leaves
\* _run_cleanups; after a failed setup it leaves _run_core as well, after
\* teardown _run_user re-raises it into the innermost finally.
SwallowInterrupt(p, e) == p
DrainInterrupted(p, e) == IF p = "setup_drain" THEN AfterCore(e) ELSE "success"

\* if result is None: actual_result.stopTestRun(), in the finally of run.
StopTestRunOnReturn(given, prop) == ~given /\ prop.cls = "None"
StopTestRunDue(given, prop) == ~given

-----------------------------------------------------------------------------
Init ==
    /\ pc = "run"
    /\ handlers \in HandlerTables
    /\ result_given \in BOOLEAN
    /\ exceptions = <<>>
    /\ \E k \in 0..MaxCleanups : cleanups = [i \in 1..k |-> i]
    /\ failed = FALSE
    /\ last_exception = NoExc
    /\ propagating = NoExc
    /\ log = <<>>

\* run(): create and start a default result when none is given.
Run ==
    /\ pc = "run"
    /\ pc' = "start"
    /\ log' = IF result_given THEN log
              ELSE log \o <<Call("defaultTestResult"), Call("startTestRun")>>
    /\ UNCHANGED <<handlers, result_given, exceptions, cleanups, failed,
                   last_exception, propagating>>

\* _run_prepared_result up to the call of _run_core.
StartTest ==
    /\ pc = "start"
    /\ log' = Append(log, Call("startTest"))
    /\ exceptions' = <<>>
    /\ pc' = "setup"
    /\ UNCHANGED <<handlers, result_given, cleanups, failed, last_exception,
                   propagating>>

\* _run_user(fn) for a hook that raised e (not an interrupt):
\* _got_user_exception reports it to the case and classifies it.
ClassifiedAlways(e) == TRUE
Classified(e) == HasHandler(e)

\* _run_core: self._run_user(self.case._run_setup, self.result)
RunSetup ==
    /\ pc = "setup"
    /\ \E e \in HookOutcomes("setup") :
         IF e = NoExc
         THEN /\ log' = Append(log, Call("setup"))
              /\ failed' = FALSE
              /\ pc' = "body"
              /\ UNCHANGED <<exceptions, propagating>>
         ELSE IF IsInterrupt(e)
         THEN /\ log' = Append(log, Ev("setup", e, 0))
              /\ propagating' = e
              /\ pc' = AfterCore(e)
              /\ UNCHANGED <<exceptions, failed>>
         ELSE IF Classified(e)
         THEN /\ log' = Append(log, Ev("setup", e, 0)) \o OnException(e)
              /\ exceptions' = Append(exceptions, e)
              /\ pc' = AfterSetupCaught
              /\ UNCHANGED <<propagating, failed>>
         ELSE /\ log' = Append(log, Ev("setup", e, 0)) \o OnException(e)
              /\ propagating' = e
              /\ pc' = AfterCore(e)
              /\ UNCHANGED <<exceptions, failed>>
    /\ UNCHANGED <<handlers, result_given, cleanups, last_exception>>

\* _run_core: self._run_user(self.case._run_test_method, self.result)
RunTestMethod ==
    /\ pc = "body"
    /\ \E e \in HookOutcomes("body") :
         IF e = NoExc
         THEN /\ log' = Append(log, Call("body"))
              /\ pc' = "teardown"
              /\ UNCHANGED <<exceptions, propagating, failed>>
         ELSE IF IsInterrupt(e)
         THEN /\ log' = Append(log, Ev("body", e, 0))
              /\ propagating' = e
              /\ pc' = AfterTestMethod(e)
              /\ UNCHANGED <<exceptions, failed>>
         ELSE IF Classified(e)
         THEN /\ log' = Append(log, Ev("body", e, 0)) \o OnException(e)
              /\ exceptions' = Append(exceptions, e)
              /\ failed' = TRUE
              /\ pc' = "teardown"
              /\ UNCHANGED propagating
         ELSE /\ log' = Append(log, Ev("body", e, 0)) \o OnException(e)
              /\ propagating' = e
              /\ pc' = AfterTestMethod(e)
              /\ UNCHANGED <<exceptions, failed>>
    /\ UNCHANGED <<handlers, result_given, cleanups, last_exception>>

\* _run_core: self._run_user(self.case._run_teardown, self.result), in the
\* finally of the test method.  An exception raised here replaces the one
\* that was unwinding.
RunTeardown ==
    /\ pc = "teardown"
    /\ \E e \in HookOutcomes("teardown") :
         IF e = NoExc
         THEN /\ log' = Append(log, Call("teardown"))
              /\ pc' = "cleanups"
              /\ UNCHANGED <<exceptions, propagating, failed>>
         ELSE IF IsInterrupt(e)
         THEN /\ log' = Append(log, Ev("teardown", e, 0))
              /\ propagating' = e
              /\ pc' = AfterTeardown(e)
              /\ UNCHANGED <<exceptions, failed>>
         ELSE IF Classified(e)
         THEN /\ log' = Append(log, Ev("teardown", e, 0)) \o OnException(e)
              /\ exceptions' = Append(exceptions, e)
              /\ failed' = TRUE
              /\ pc' = "cleanups"
              /\ UNCHANGED propagating
         ELSE /\ log' = Append(log, Ev("teardown", e, 0)) \o OnException(e)
              /\ propagating' = e
              /\ pc' = AfterTeardown(e)
              /\ UNCHANGED <<exceptions, failed>>
    /\ UNCHANGED <<handlers, result_given, cleanups, last_exception>>

\* Entry of _run_cleanups: last_exception = None.  Called directly after a
\* failed setup, through _run_user after teardown.
RunCleanups ==
    /\ pc \in {"setup_cleanups", "cleanups"}
    /\ last_exception' = NoExc
    /\ log' = Append(log, Call("run_cleanups"))
    /\ pc' = IF pc = "setup_cleanups" THEN "setup_drain" ELSE "drain"
    /\ UNCHANGED <<handlers, result_given, exceptions, cleanups, failed,
                   propagating>>

\* One iteration of `while self.case._cleanups`: pop an entry, call it,
\* and process what it raised.
CleanupStep ==
    /\ pc \in {"setup_drain", "drain"}
    /\ DrainContinues(cleanups, last_exception)
    /\ cleanups' = PopRest(cleanups)
    /\ LET c == CleanupPop(cleanups) IN
       \E e \in CleanupOutcomes(c) :
         IF e = NoExc
         THEN /\ log' = Append(log, Ev("cleanup", NoExc, c))
              /\ UNCHANGED <<pc, last_exception, propagating>>
         ELSE IF IsInterrupt(e)
         THEN /\ log' = Append(log, Ev("cleanup", e, c))
              /\ propagating' = e
              /\ pc' = DrainInterrupted(pc, e)
              /\ UNCHANGED last_exception
         ELSE LET r == Flatten(<<e>>, <<>>, last_exception) IN
              /\ log' = Append(log, Ev("cleanup", e, c)) \o ReportEvents(r.rep)
              /\ last_exception' = r.last
              /\ UNCHANGED <<pc, propagating>>
    /\ UNCHANGED <<handlers, result_given, exceptions, failed>>

\* `return last_exception` and what the caller in _run_core does with it.
CleanupsReturn ==
    /\ pc \in {"setup_drain", "drain"}
    /\ ~DrainContinues(cleanups, last_exception)
    /\ log' = Append(log, Ev("run_cleanups_return", last_exception, 0))
    /\ exceptions' = IF last_exception # NoExc
                     THEN Append(exceptions, last_exception) ELSE exceptions
    /\ failed' = IF pc = "drain" /\ last_exception # NoExc THEN TRUE ELSE failed
    /\ pc' = IF pc = "setup_drain" THEN "dispatch" ELSE "success"
    /\ UNCHANGED <<handlers, result_given, cleanups, last_exception,
                   propagating>>

\* The innermost finally of _run_core: if not failed: addSuccess.
ReportSuccess ==
    /\ pc = "success"
    /\ log' = IF SuccessGuard(failed) THEN Append(log, Call("addSuccess")) ELSE log
    /\ pc' = IF propagating # NoExc THEN AfterCore(propagating) ELSE "dispatch"
    /\ UNCHANGED <<handlers, result_given, exceptions, cleanups, failed,
                   last_exception, propagating>>

\* _run_prepared_result after _run_core returned: report one pending
\* exception through the first matching handler.
Dispatch ==
    /\ pc = "dispatch"
    /\ IF exceptions # <<>>
       THEN LET e == PendingPop(exceptions) IN
            /\ exceptions' = PopRest(exceptions)
            /\ IF HasHandler(e)
               THEN \E h \in HandlerOutcomes :
                      /\ log' = Append(log, Ev("handler", e, FirstHandler(e)))
                      /\ propagating' = h
               ELSE UNCHANGED <<log, propagating>>
       ELSE UNCHANGED <<exceptions, log, propagating>>
    /\ pc' = AfterCore(propagating')
    /\ UNCHANGED <<handlers, result_given, cleanups, failed, last_exception>>

\* finally: result.stopTest(self.case)
StopTest ==
    /\ pc = "stop"
    /\ log' = Append(log, Call("stopTest"))
    /\ pc' = "stop_run"
    /\ UNCHANGED <<handlers, result_given, exceptions, cleanups, failed,
                   last_exception, propagating>>

\* run(): finally: if result is None: actual_result.stopTestRun(); then the
\* result is returned or the unwinding exception leaves run.
Finish ==
    /\ pc = "stop_run"
    /\ log' = IF StopTestRunDue(result_given, propagating)
              THEN Append(log, Call("stopTestRun")) ELSE log
    /\ pc' = "done"
    /\ UNCHANGED <<handlers, result_given, exceptions, cleanups, failed,
                   last_exception, propagating>>

Next ==
    \/ Run
    \/ StartTest
    \/ RunSetup
    \/ RunTestMethod
    \/ RunTeardown
    \/ RunCleanups
    \/ CleanupStep
    \/ CleanupsReturn
    \/ ReportSuccess
    \/ Dispatch
    \/ StopTest
    \/ Finish

Spec == Init /\ [][Next]_vars

-----------------------------------------------------------------------------
(* Reading the log.                                                        *)

At(ev) == {i \in DOMAIN log : log[i].ev = ev}
Count(ev) == Cardinality(At(ev))

PhaseEvents == {"setup", "body", "teardown", "run_cleanups", "cleanup"}
FinalEvents == {"addSuccess", "handler"}
DiagEvents == {"onException", "report_traceback"}

Finals == {i \in DOMAIN log : log[i].ev \in FinalEvents}
Diags == {i \in DOMAIN log : log[i].ev \in DiagEvents}

\* The user code calls in which something was raised.
Raises == {i \in DOMAIN log : log[i].ev \in PhaseEvents /\ log[i].exc # NoExc}
Interrupts == {i \in Raises : IsInterrupt(log[i].exc)}

SetupReturned == \E i \in At("setup") : log[i].exc = NoExc
SetupRaised == \E i \in At("setup") : log[i].exc # NoExc
SetupRaisedNonInterrupt ==
    \E i \in At("setup") : log[i].exc # NoExc /\ ~IsInterrupt(log[i].exc)
SetupRaisedClassified ==
    \E i \in At("setup") :
        log[i].exc # NoExc /\ ~IsInterrupt(log[i].exc) /\ HasHandler(log[i].exc)

IsCleanupCall(x) == x.ev = "cleanup"
IsReport(x) == x.ev = "report_traceback"

\* The ids of the cleanups invoked so far, in order of invocation.
Invoked ==
    LET f == SelectSeq(log, IsCleanupCall) IN [i \in DOMAIN f |-> f[i].n]

\* The exc_infos reported through case._report_traceback so far, in order.
Reported ==
    LET f == SelectSeq(log, IsReport) IN [i \in DOMAIN f |-> f[i].exc]

-----------------------------------------------------------------------------
(* Claims.                                                                 *)

\* C1: every finished run has made exactly one final-status report: one
\* addSuccess or one handler invocation, never zero and never two.
C1_SingleOutcome == pc = "done" => Cardinality(Finals) = 1

\* C2: within one run addSuccess is called at most once, a handler is
\* invoked at most once, and never both.
C2_AtMostOneOutcome ==
    /\ Count("addSuccess") <= 1
    /\ Count("handler") <= 1
    /\ Count("addSuccess") + Count("handler") <= 1

\* A run that captured two exceptions and dispatched one of them.
C2_Witness ==
    /\ pc = "done"
    /\ Count("handler") = 1
    /\ Count("onException") = 2

\* C3: addSuccess is called only if setup, the test method, teardown and
\* every cleanup returned without raising anything.
C3_SuccessOnlyIfClean == Count("addSuccess") > 0 => Raises = {}

\* C4: when setup returned, the test method, teardown and the cleanup
\* drain each run exactly once, in this order, whatever is raised.
C4_TotalPhases ==
    (pc = "done" /\ SetupReturned) =>
        /\ Count("body") = 1
        /\ Count("teardown") = 1
        /\ Count("run_cleanups") = 1
        /\ \A b \in At("body"), t \in At("teardown"), c \in At("run_cleanups") :
               b < t /\ t < c

\* A finished run whose test method raised an exception no handler matches
\* and whose teardown raised as well.
C4_Witness ==
    /\ pc = "done"
    /\ \E b \in At("body") :
           /\ log[b].exc # NoExc
           /\ ~IsInterrupt(log[b].exc)
           /\ ~HasHandler(log[b].exc)
    /\ \E t \in At("teardown") : log[t].exc # NoExc
    /\ Count("run_cleanups") = 1

\* The part of C5 that speaks of the run once the drain has returned.
SetupPathBody ==
    /\ Count("body") = 0
    /\ Count("teardown") = 0
    /\ Count("addSuccess") = 0
    /\ pc \in {"setup_drain", "dispatch", "stop", "stop_run", "done"}
           => Count("run_cleanups") = 1
    /\ pc = "dispatch" =>
           \E i \in At("setup") :
               exceptions = <<log[i].exc>> \o
                   (IF last_exception # NoExc THEN <<last_exception>> ELSE <<>>)

\* C5 (as stated): whenever setup raises a non-interrupt exception, the
\* test method and teardown are never entered, the drain runs exactly once,
\* its failure is appended after the setup exception, addSuccess is not
\* called.
C5_SetupFailurePath == SetupRaisedNonInterrupt => SetupPathBody

\* C5 (amended): the same, for a setup exception that matches an entry of
\* the handler table.
C5_ClassifiedSetupFailurePath == SetupRaisedClassified => SetupPathBody

\* Setup raised a classified exception, a cleanup failed in the drain, and
\* both are pending.
C5_Witness ==
    /\ pc = "dispatch"
    /\ SetupRaisedClassified
    /\ Len(exceptions) = 2
    /\ exceptions[2].origin = "cleanup"

\* C6: startTest is called exactly once before any phase, stopTest exactly
\* once after the last phase and after any final-status report, on every
\* exit path.
C6_StartStopBracket ==
    LET starts == At("startTest")
        stops == At("stopTest")
        inside == {i \in DOMAIN log :
                      log[i].ev \in PhaseEvents \cup FinalEvents \cup DiagEvents}
    IN /\ Cardinality(starts) <= 1
       /\ Cardinality(stops) <= 1
       /\ inside # {} => starts # {}
       /\ \A i \in inside :
              /\ \A s \in starts : s < i
              /\ \A t \in stops : i < t
       /\ pc = "done" => Cardinality(starts) = 1 /\ Cardinality(stops) = 1

\* A finished run in which the handler raised.
C6_Witness ==
    /\ pc = "done"
    /\ propagating.origin = "handler"
    /\ Count("stopTest") = 1

\* C7: an interrupt raised in any phase leaves run unmodified, is never
\* given to onException nor appended to the pending list, and no final
\* status is reported in that run.
C7_InterruptNotClassified ==
    /\ \A i \in Diags : ~IsInterrupt(log[i].exc)
    /\ \A k \in DOMAIN exceptions : ~IsInterrupt(exceptions[k])
    /\ Interrupts # {} => Finals = {}
    /\ (pc = "done" /\ Interrupts # {}) =>
           \E i \in Interrupts : propagating = log[i].exc

\* C8: the exception handed to the handler is the one captured last, and
\* every pending or dispatched exception was reported to the case.
C8_LastCapturedWins ==
    /\ \A h \in At("handler") :
           /\ \E d \in Diags : d < h
           /\ \A d \in Diags :
                  (d < h /\ \A d2 \in Diags : d2 < h => d2 <= d)
                      => log[h].exc = log[d].exc
    /\ \A k \in DOMAIN exceptions :
           \E d \in Diags : log[d].exc = exceptions[k]

\* The test method raised a failure, teardown a skip, and the final report
\* is the skip.
C8_Witness ==
    /\ pc = "done"
    /\ \E b \in At("body") : log[b].exc.cls = "AssertionError"
    /\ \E h \in At("handler") :
           /\ log[h].exc.cls = "Skip"
           /\ log[h].exc.origin = "teardown"
           /\ handlers[log[h].n].handler = "addSkip"

\* The drain is over and is about to return last_exception.
DrainReturning == pc \in {"setup_drain", "drain"} /\ cleanups = <<>>

\* C9 (as stated): when two cleanups raised, the drain yields a
\* MultipleExceptions carrier whose payload is the exceptions captured, in
\* the order captured.
C9_AggregatedCarrier ==
    (DrainReturning /\ Cardinality({i \in At("cleanup") : log[i].exc # NoExc}) >= 2) =>
        /\ last_exception.cls = "MultipleExceptions"
        /\ last_exception.args = Reported

\* C9 (amended): the drain yields the exception it reported last to the
\* case, never a carrier; nothing when it reported none.
C9_MostRecentFailure ==
    DrainReturning =>
        /\ last_exception.cls # "MultipleExceptions"
        /\ Reported = <<>> => last_exception = NoExc
        /\ Reported # <<>> => last_exception = Reported[Len(Reported)]

\* Two cleanups both raised a plain exception; the drain is about to return
\* the failure of the one that ran last.
C9_Witness ==
    /\ DrainReturning
    /\ \E i, j \in At("cleanup") :
           /\ i < j
           /\ log[i].exc.cls = "AssertionError"
           /\ log[j].exc.cls = "AssertionError"
           /\ last_exception = log[j].exc

\* C10: cleanups run in the reverse of the order of registration, each at
\* most once: of the k cleanups registered (A = 1, B = 2, ...), the i-th
\* invoked is number k - i + 1, and the stack holds those not yet invoked.
C10_CleanupLIFO ==
    LET inv == Invoked
        k == Len(cleanups) + Len(inv)
    IN /\ \A i \in DOMAIN inv : inv[i] = k - i + 1
       /\ \A i \in DOMAIN cleanups : cleanups[i] = i

\* Cleanups A, B, C were registered and all three ran: C, B, A.
C10_Witness == Invoked = <<3, 2, 1>>

\* The calls of cleanups in which something was raised.
CleanupRaises == {i \in At("cleanup") : log[i].exc # NoExc}

C12_FirstMatchWins ==
    \A h \in At("handler") :
        LET e == log[h].exc
            k == log[h].n
        IN /\ k \in DOMAIN handlers
           /\ isinstance(e, handlers[k].exc_class)
           /\ \A j \in 1..(k - 1) : ~isinstance(e, handlers[j].exc_class)
           /\ (e.cls = "AssertionError"
                 /\ handlers[1].exc_class \in {"Skip", "AssertionError"})
                  => handlers[k].handler = "addFailure"

\* An AssertionError was dispatched with the table (Skip, AssertionError,
\* Exception): both the second and the third entry match, the second won.
C12_Witness ==
    /\ Len(handlers) = 3
    /\ \E h \in At("handler") :
           /\ log[h].exc.cls = "AssertionError"
           /\ log[h].n = 2
           /\ handlers[2].handler = "addFailure"
           /\ isinstance(log[h].exc, handlers[3].exc_class)

\* The calls of setup that raised an exception no handler entry matches.
UnmatchedSetup ==
    {i \in At("setup") :
        /\ log[i].exc # NoExc
        /\ ~IsInterrupt(log[i].exc)
        /\ \A j \in DOMAIN handlers : ~isinstance(log[i].exc, handlers[j].exc_class)}

\* C13: a setup exception that no handler entry matches leaves run as it
\* is: nothing is appended to the pending list, no final status is
\* reported, stopTest is still called.
C13_UnclassifiedSetupFatal ==
    \A i \in UnmatchedSetup :
        /\ exceptions = <<>>
        /\ Finals = {}
        /\ propagating = log[i].exc
        /\ pc \in {"stop", "stop_run", "done"}
        /\ pc \in {"stop_run", "done"} => Count("stopTest") = 1

\* A finished run whose setup raised an exception the (non-empty) handler
\* table has no entry for.
C13_Witness ==
    /\ pc = "done"
    /\ handlers # <<>>
    /\ UnmatchedSetup # {}
    /\ propagating.origin = "setup"

C15_FinalAfterPhases ==
    \A f \in Finals :
        /\ \A i \in DOMAIN log :
               log[i].ev \in PhaseEvents \cup DiagEvents => i < f
        /\ \E c \in At("run_cleanups") : c < f
        /\ \/ \E r \in At("run_cleanups_return") : r < f
           \/ \E i \in At("cleanup") : i < f /\ IsInterrupt(log[i].exc)
        /\ log[f].ev = "handler" =>
               \E r \in At("run_cleanups_return") : r < f
        /\ \A t \in At("stopTest") : f < t

\* A hook and a cleanup both raised, both were reported to the case, and
\* one handler was invoked at the end of the run.
C15_Witness ==
    /\ pc = "done"
    /\ Count("handler") = 1
    /\ Count("onException") >= 1
    /\ Count("report_traceback") >= 1

\* C16: a cleanup's interrupt ends the drain at once: no cleanup is popped
\* or invoked after it, the entries not yet run stay on the stack, and the
\* interrupt is neither reported to the case nor recorded as the most
\* recent failure.
C16_InterruptAbortsDrain ==
    \A i \in DOMAIN log :
        (log[i].ev = "cleanup" /\ log[i].exc.cls = "KeyboardInterrupt") =>
            /\ \A j \in DOMAIN log :
                   log[j].ev \in {"cleanup", "report_traceback",
                                  "run_cleanups_return"} => j <= i
            /\ Len(cleanups) = log[i].n - 1
            /\ ~IsInterrupt(last_exception)
            /\ propagating = log[i].exc
            /\ \A d \in DOMAIN log :
                   log[d].ev \in DiagEvents => log[d].exc # log[i].exc

\* C failed, B raised an interrupt, A is still on the stack.
C16_Witness ==
    /\ pc = "done"
    /\ cleanups = <<1>>
    /\ Invoked = <<3, 2>>
    /\ \E i, j \in At("cleanup") :
           /\ log[i].n = 3 /\ log[i].exc.cls = "AssertionError"
           /\ log[j].n = 2 /\ IsInterrupt(log[j].exc)

\* The calls of setup, the test method and teardown that raised an
\* interrupt.
HookInterrupt(ev) == {i \in At(ev) : IsInterrupt(log[i].exc)}
PastCore == pc \in {"success", "dispatch", "stop", "stop_run", "done"}

\* C17 (as stated): once setup, the test method or teardown raised an
\* interrupt, no later phase of the run is entered.
C17_InterruptUnwinds ==
    \A i \in HookInterrupt("setup") \cup HookInterrupt("body")
             \cup HookInterrupt("teardown") :
        \A j \in DOMAIN log : log[j].ev \in PhaseEvents => j <= i

\* C17 (amended): after an interrupt in setup no later phase is entered;
\* after an interrupt in the test method teardown and the drain still run,
\* once each; after an interrupt in teardown the drain still runs once.
C17_InterruptRunsFinally ==
    /\ \A i \in HookInterrupt("setup") :
           \A j \in DOMAIN log : log[j].ev \in PhaseEvents => j <= i
    /\ (PastCore /\ HookInterrupt("body") # {}) =>
           Count("teardown") = 1 /\ Count("run_cleanups") = 1
    /\ (PastCore /\ HookInterrupt("teardown") # {}) =>
           Count("run_cleanups") = 1
    /\ \A i \in HookInterrupt("teardown") :
           \A j \in DOMAIN log : log[j].ev \in {"setup", "body", "teardown"} => j <= i

\* The test method raised an interrupt; teardown and a cleanup ran after it.
C17_Witness ==
    /\ pc = "done"
    /\ \E i \in HookInterrupt("body"), t \in At("teardown"), c \in At("cleanup") :
           i < t /\ t < c

\* C18: every non-interrupt exception of setup, the test method or
\* teardown is given to case.onException, every plain exception of a
\* cleanup to case._report_traceback, each exactly once, whether a handler
\* matches it or not.
C18_DiagnosedOnce ==
    LET diags == Diags IN
    \A i \in DOMAIN log :
        LET e == log[i].exc IN
        (/\ log[i].ev \in PhaseEvents
         /\ e.cls \notin {"None", "KeyboardInterrupt", "MultipleExceptions"}) =>
            /\ i + 1 \in DOMAIN log
            /\ log[i + 1] = Ev(IF log[i].ev = "cleanup"
                               THEN "report_traceback" ELSE "onException", e, 0)
            /\ Cardinality({d \in diags : log[d].exc = e}) = 1

\* The test method raised an exception no handler matches, a cleanup
\* raised as well, and both were reported to the case.
C18_Witness ==
    /\ pc = "done"
    /\ \E b \in At("body") :
           /\ log[b].exc # NoExc
           /\ ~IsInterrupt(log[b].exc)
           /\ ~HasHandler(log[b].exc)
           /\ log[b + 1].ev = "onException"
    /\ Count("report_traceback") >= 1

\* The exceptions that are not carriers in the nesting of e.
RECURSIVE LeavesOf(_)
LeavesOf(e) ==
    IF e.cls = "MultipleExceptions"
    THEN UNION {LeavesOf(e.args[k]) : k \in DOMAIN e.args}
    ELSE {e}

\* C19: when a cleanup raises a carrier, every exception in its nesting
\* that is not a carrier is reported to the case exactly once, no carrier
\* is reported or recorded, and the failure recorded is the one the
\* worklist took last.
C19_CarrierFlattened ==
    /\ \A d \in Diags : log[d].exc.cls # "MultipleExceptions"
    /\ last_exception.cls # "MultipleExceptions"
    /\ \A k \in DOMAIN exceptions : exceptions[k].cls # "MultipleExceptions"
    /\ \A i \in DOMAIN log :
           (log[i].ev = "cleanup" /\ log[i].exc.cls = "MultipleExceptions") =>
               LET L == LeavesOf(log[i].exc)
                   m == Cardinality(L)
               IN /\ i + m <= Len(log)
                  /\ \A j \in (i + 1)..(i + m) : log[j].ev = "report_traceback"
                  /\ {log[j].exc : j \in (i + 1)..(i + m)} = L
                  /\ i + m + 1 \in DOMAIN log =>
                         log[i + m + 1].ev # "report_traceback"
                  /\ (m > 0 /\ i + m = Len(log)) =>
                         last_exception = log[i + m].exc
                  /\ m = 2 => log[i + 1].exc.part = 3 /\ log[i + 2].exc.part = 1

\* A cleanup raised a carrier holding an exception and a nested carrier;
\* both inner exceptions were reported and the last one taken is recorded.
C19_Witness ==
    \E i \in CleanupRaises :
        /\ Cardinality(LeavesOf(log[i].exc)) = 2
        /\ i + 2 = Len(log)
        /\ last_exception.cls = "SystemExit"

\* C20: a run that returns normally has reported exactly one final status,
\* and every exception pending at final dispatch matches a handler entry.
C20_NoSilentLoss ==
    /\ (pc = "done" /\ propagating = NoExc) => Cardinality(Finals) = 1
    /\ pc = "dispatch" => \A k \in DOMAIN exceptions : HasHandler(exceptions[k])

=============================================================================
